---- MODULE Spec2Model ----
(***************************************************************************)
(* RepCRec: replicated concurrency control and recovery.                   *)
(* A model of the transaction manager (snapshot isolation with an SSI      *)
(* dependency graph) and of the sites (available copies), one action per   *)
(* inbound command.  Variables are named by their index: variable i is     *)
(* the source's 'x' + str(i).                                              *)
(*                                                                         *)
(* Transaction.read_variables, Transaction.id, Site.last_failure_time and  *)
(* Site.variables are written but never read by the program and are left   *)
(* out; the value a read observes is kept in last_log.                     *)
(***************************************************************************)
EXTENDS Integers, Sequences, FiniteSets, TLC

\* ---------------------------------------------------------------- bounds
\* Number of sites and of logical variables of the run (start.py -n / -v).
NUM_SITES == 2
NUM_VARIABLES == 2
\* Commands of the transaction manager are taken while current_time is
\* below this cap; at most MaxSiteCmds fail/recover commands are taken.
MaxTime == 6
MaxSiteCmds == 2
\* The cap on current_time for scripts of transaction commands only.
MaxTimeTxn == 9
\* Scripts with dump: the cap on current_time and the number of fail,
\* recover and dump commands taken.
MaxTimeDump == 4
MaxCmdsDump == 3
\* Scripts of three transactions: the cap on current_time.
MaxTimeGraph == 12
\* Scripts with a reused name: the clock cap and the fail/recover budget.
MaxTimeReuse == 14
MaxCmdsReuse == 2
\* Scripts whose fail and recover may name a site outside the run: the cap
\* on current_time and the number of fail and recover commands taken.
MaxTimeErr == 4
MaxCmdsErr == 2

\* ------------------------------------------------------------- constants
Sites == 1..NUM_SITES
Vars == 1..NUM_VARIABLES
\* Transaction names and written values the commands draw from.
TxnNames == {"T1", "T2"}
WriteValues == {5, 6}

\* Python's None for start_ts / commit_ts / a read that returns nothing.
None == -1

VARIABLES
    current_time,         \* TransactionManager.current_time
    transaction_map,      \* TransactionManager.transaction_map: name -> Transaction
    last_commit_ts,       \* TransactionManager.last_commit_ts: var -> ts
    last_writer,          \* TransactionManager.last_writer: var -> name
    version_history,      \* TransactionManager.version_history: var -> <<ts, name>>*
    dep_graph,            \* TransactionManager.dep_graph: name -> set of names
    site_status,          \* Site.status of every site
    recovered_variables,  \* Site.recovered_variables of every site
    variable_map,         \* Site.DataManager.variable_map: site -> var -> value
    last_log,             \* what the last command logged
    \* history variables (not program state)
    begin_snapshot,       \* name -> what get_current_variables returned at begin
    issued,               \* name -> var -> value of the last accepted W
    failed_since_begin,   \* name -> sites that failed since the begin
    committed_log,        \* one record per transaction that ended COMMITTED
    applied_since_recover,\* site -> vars a commit wrote there since recover()
    applied_since_fail,   \* site -> vars a commit wrote there since fail()
    ever_failed,          \* sites that have failed at least once
    site_cmds             \* number of fail/recover commands taken so far

prog_vars == <<current_time, transaction_map, last_commit_ts, last_writer,
               version_history, dep_graph, site_status, recovered_variables,
               variable_map, last_log>>
hist_vars == <<begin_snapshot, issued, failed_since_begin, committed_log,
               applied_since_recover, applied_since_fail, ever_failed>>
vars == <<prog_vars, hist_vars, site_cmds>>

\* ------------------------------------------------------------ the schema
\* Variable.get_sites: the sentinel 'all' for an even index, else the one
\* hosting site (a record, so that the two kinds of answer can be compared).
get_sites(i) ==
    IF i % 2 = 0 THEN [all |-> TRUE, site |-> 0]
    ELSE [all |-> FALSE, site |-> 1 + (i % 10)]

\* SiteManager.get_site_range
get_site_range(sites) == IF sites.all THEN Sites ELSE {sites.site}

\* Site.DataManager.__init__: the variables stored at a site.
HostedAt(s) == {i \in Vars : i % 2 = 0 \/ (1 + (i % 10)) = s}

\* A slip: only the upper end of the range of site ids is tested.
check_index_upper_only(index) == index <= NUM_SITES

\* SiteManager._check_index_sanity: the index is a site of the run.
check_index_sanity(index) == index \in Sites

\* Functions as Python dicts.
Put(f, k, v) == [x \in DOMAIN f \cup {k} |-> IF x = k THEN v ELSE f[x]]
EmptyDict == [x \in {} |-> 0]

\* Transaction.__init__
NewTransaction ==
    [status |-> "RUNNING", snapshot |-> EmptyDict,
     uncommitted_variables |-> EmptyDict, read_set |-> {}, write_set |-> {},
     start_ts |-> None, commit_ts |-> None, write_sites |-> {}]

\* What a command logs.  again: the command before it was the same
\* fail(i) or recover(i); param, dumped, values: the parameter of a dump
\* and what it emitted.
NoLog == [op |-> "none", txn |-> "", var |-> 0, val |-> None, site |-> 0,
          what |-> "", again |-> FALSE, param |-> <<>>, dumped |-> {},
          values |-> {}]

Init ==
    /\ current_time = 0
    /\ transaction_map = EmptyDict
    /\ last_commit_ts = EmptyDict
    /\ last_writer = EmptyDict
    /\ version_history = [i \in Vars |-> <<>>]
    /\ dep_graph = EmptyDict
    /\ site_status = [s \in Sites |-> "UP"]
    /\ recovered_variables = [s \in Sites |-> HostedAt(s)]
    /\ variable_map = [s \in Sites |-> [i \in HostedAt(s) |-> 10 * i]]
    /\ last_log = NoLog
    /\ begin_snapshot = EmptyDict
    /\ issued = EmptyDict
    /\ failed_since_begin = EmptyDict
    /\ committed_log = {}
    /\ applied_since_recover = [s \in Sites |-> {}]
    /\ applied_since_fail = [s \in Sites |-> {}]
    /\ ever_failed = {}
    /\ site_cmds = 0

\* ------------------------------------------------------------ SiteManager
\* SiteManager.get_current_variables: the first readable replica of every
\* variable, sites scanned in ascending id; no readable replica, no entry.
\* A slip: the recovered_variables test left out, so that a stale replica at
\* a recovering site counts as readable.
readable_when_not_down(i) ==
    {s \in Sites : /\ site_status[s] # "DOWN"
                   /\ i \in DOMAIN variable_map[s]}

ReadableAt(i) ==
    {s \in Sites : /\ site_status[s] # "DOWN"
                   /\ i \in DOMAIN variable_map[s]
                   /\ i \in recovered_variables[s]}

FirstReadable(i) == CHOOSE s \in ReadableAt(i) : \A r \in ReadableAt(i) : s <= r

get_current_variables ==
    [i \in {j \in Vars : ReadableAt(j) # {}} |-> variable_map[FirstReadable(i)][i]]

\* A slip: the site manager was never given the transaction manager, so a
\* failure aborts nobody.
abort_nobody(tm, site_id) == tm

\* A slip: a failure aborts every RUNNING transaction, whatever it wrote.
abort_every_running(tm, site_id) ==
    [n \in DOMAIN tm |->
        IF tm[n].status = "RUNNING" THEN [tm[n] EXCEPT !.status = "ABORTED"]
        ELSE tm[n]]

\* A slip: the status test left out, so that a failure aborts every
\* transaction that wrote to the site, ended or not.
abort_any_writer(tm, site_id) ==
    [n \in DOMAIN tm |->
        IF site_id \in tm[n].write_sites THEN [tm[n] EXCEPT !.status = "ABORTED"]
        ELSE tm[n]]

\* TransactionManager.abort_transactions_on_site_failure
abort_transactions_on_site_failure(tm, site_id) ==
    [n \in DOMAIN tm |->
        IF tm[n].status = "RUNNING" /\ site_id \in tm[n].write_sites
        THEN [tm[n] EXCEPT !.status = "ABORTED"]
        ELSE tm[n]]

\* A slip: a failure leaves the readable set of the site as it was.
site_fail_keep(rv) == rv

\* Site.fail: no variable of the site is readable any more.
site_fail(rv) == {}

\* A slip: fail() on a site that is already DOWN brings it back.
site_fail_toggle(st) == IF st = "DOWN" THEN "UP" ELSE "DOWN"

\* Site.fail: the status becomes DOWN whatever it was.
site_fail_status(st) == "DOWN"

\* SiteManager.fail / SiteManager.recover: _check_index_sanity raises
\* ValueError before anything is done, and nothing catches it: the run
\* ends there.
raise_value_error(op, index) ==
    /\ site_cmds' = site_cmds + 1
    /\ last_log' = [NoLog EXCEPT !.op = op, !.site = index, !.what = "ValueError"]
    /\ UNCHANGED <<current_time, transaction_map, last_commit_ts, last_writer,
                   version_history, dep_graph, site_status, recovered_variables,
                   variable_map, hist_vars>>

\* The run has ended with an exception.
Raised == last_log.what = "ValueError"

\* fail(i): SiteManager.tick -> SiteManager.fail -> Site.fail, then the
\* transaction manager aborts the writers of the site.  The clock of the
\* transaction manager is not advanced.
Fail(s) ==
    IF ~check_index_sanity(s) THEN raise_value_error("fail", s) ELSE
    /\ site_cmds' = site_cmds + 1
    /\ site_status' = [site_status EXCEPT ![s] = site_fail_status(@)]
    /\ recovered_variables' = [recovered_variables EXCEPT ![s] = site_fail(@)]
    /\ transaction_map' = abort_transactions_on_site_failure(transaction_map, s)
    /\ last_log' = [NoLog EXCEPT !.op = "fail", !.site = s, !.what = "failed",
                                 !.again = (last_log.op = "fail" /\ last_log.site = s)]
    /\ failed_since_begin' =
           [n \in DOMAIN failed_since_begin |-> failed_since_begin[n] \cup {s}]
    /\ applied_since_fail' = [applied_since_fail EXCEPT ![s] = {}]
    /\ ever_failed' = ever_failed \cup {s}
    /\ UNCHANGED <<current_time, last_commit_ts, last_writer, version_history,
                   dep_graph, variable_map, begin_snapshot, issued,
                   committed_log, applied_since_recover>>

\* A slip: recovery makes every variable stored at the site readable.
site_recover_all(rv, s) == rv \cup DOMAIN variable_map[s]

\* Site.recover: the odd variables stored here become readable; the status
\* becomes RECOVERING whatever it was.
site_recover(rv, s) == rv \cup {i \in DOMAIN variable_map[s] : i % 2 # 0}

\* A slip: recover() on a site that is RECOVERING already ends its
\* recovery.
site_recover_settle(st) == IF st = "RECOVERING" THEN "UP" ELSE "RECOVERING"

\* Site.recover: the status becomes RECOVERING whatever it was.
site_recover_status(st) == "RECOVERING"

\* recover(i): SiteManager.tick -> SiteManager.recover -> Site.recover
Recover(s) ==
    IF ~check_index_sanity(s) THEN raise_value_error("recover", s) ELSE
    /\ site_cmds' = site_cmds + 1
    /\ recovered_variables' =
           [recovered_variables EXCEPT ![s] = site_recover(@, s)]
    /\ site_status' = [site_status EXCEPT ![s] = site_recover_status(@)]
    /\ last_log' = [NoLog EXCEPT !.op = "recover", !.site = s, !.what = "recovered",
                                 !.again = (last_log.op = "recover" /\ last_log.site = s)]
    /\ applied_since_recover' = [applied_since_recover EXCEPT ![s] = {}]
    /\ UNCHANGED <<current_time, transaction_map, last_commit_ts, last_writer,
                   version_history, dep_graph, variable_map, begin_snapshot,
                   issued, failed_since_begin, committed_log,
                   applied_since_fail, ever_failed>>

\* Python's int() of a string of decimal digits.
DigitValue(c) ==
    CASE c = "0" -> 0 [] c = "1" -> 1 [] c = "2" -> 2 [] c = "3" -> 3
      [] c = "4" -> 4 [] c = "5" -> 5 [] c = "6" -> 6 [] c = "7" -> 7
      [] c = "8" -> 8 [] c = "9" -> 9

RECURSIVE to_int(_)
to_int(str) ==
    IF Len(str) = 1 THEN DigitValue(str[1])
    ELSE 10 * to_int(SubSeq(str, 1, Len(str) - 1)) + DigitValue(str[Len(str)])

\* Site.dump_site: what the dump of one site logs.  A DOWN site logs that
\* it is down; a RECOVERING site logs every variable, readable or not; an
\* UP site logs the variables that differ from their initial value; rest
\* tells that the closing line about initial values is logged.
dump_site(s) ==
    IF site_status[s] = "DOWN"
    THEN [site |-> s, down |-> TRUE, lines |-> {}, rest |-> FALSE]
    ELSE LET lines ==
                 {<<i, IF site_status[s] = "RECOVERING"
                           /\ i \notin recovered_variables[s]
                       THEN None ELSE variable_map[s][i]>> :
                    i \in {j \in DOMAIN variable_map[s] :
                              \/ site_status[s] = "RECOVERING"
                              \/ variable_map[s][j] # 10 * j}}
         IN [site |-> s, down |-> FALSE, lines |-> lines,
             rest |-> Cardinality(lines) # Cardinality(DOMAIN variable_map[s])]

\* The parameter of a dump command, a string as a sequence of characters:
\* dump(), dump(xN) or dump(i).
DumpParams == {<<>>, <<"x", "1">>, <<"x", "2">>, <<"1">>, <<"0", "2">>}

\* dump: SiteManager.tick.  An empty parameter dumps every site; xN logs
\* the value of xN stored at each of its sites; a parameter of two
\* characters dumps that site; any other parameter logs nothing.  No
\* state of a site or of a transaction changes.
Dump(param) ==
    /\ site_cmds' = site_cmds + 1
    /\ IF Len(param) = 0
       THEN last_log' = [NoLog EXCEPT !.op = "dump", !.param = param,
                            !.dumped = {dump_site(s) : s \in Sites}]
       ELSE IF param[1] = "x"
       THEN LET var == to_int(Tail(param))
                sites == get_site_range(get_sites(var))
            IN /\ sites \subseteq 0..NUM_SITES
               /\ last_log' = [NoLog EXCEPT !.op = "dump", !.param = param, !.var = var,
                      !.values = {<<s, variable_map[s][var]>> :
                                     s \in {r \in sites : var \in DOMAIN variable_map[r]}}]
       ELSE IF Len(param) = 2
       THEN /\ check_index_sanity(to_int(param))
            /\ last_log' = [NoLog EXCEPT !.op = "dump", !.param = param,
                                         !.site = to_int(param),
                                         !.dumped = {dump_site(to_int(param))}]
       ELSE last_log' = [NoLog EXCEPT !.op = "dump", !.param = param]
    /\ UNCHANGED <<current_time, transaction_map, last_commit_ts, last_writer,
                   version_history, dep_graph, site_status, recovered_variables,
                   variable_map, hist_vars>>

\* ----------------------------------------------------- TransactionManager
\* A slip: the node is removed but the edges that lead to it stay.
remove_node_only(g, name) == [u \in DOMAIN g \ {name} |-> g[u]]

\* TransactionManager._remove_txn_from_graph
remove_txn_from_graph(g, name) ==
    [u \in DOMAIN g \ {name} |-> g[u] \ {name}]

\* A slip: tick without its clear_aborted, an ABORTED transaction staying
\* in the graph until its own end.
clear_nothing(g) == g

\* TransactionManager.clear_aborted: abort(name) for every ABORTED
\* transaction, which removes it from the graph.
clear_aborted(g) ==
    LET aborted == {n \in DOMAIN transaction_map :
                        transaction_map[n].status = "ABORTED"}
    IN [u \in DOMAIN g \ aborted |-> g[u] \ aborted]

\* TransactionManager.begin, after tick's clock and clear_aborted.
Begin(name) ==
    /\ current_time' = current_time + 1
    /\ dep_graph' = clear_aborted(dep_graph)
    /\ transaction_map' =
           Put(transaction_map, name,
               [NewTransaction EXCEPT !.start_ts = current_time + 1,
                                      !.snapshot = get_current_variables])
    /\ last_log' = [NoLog EXCEPT !.op = "begin", !.txn = name, !.what = "started"]
    /\ begin_snapshot' = Put(begin_snapshot, name, get_current_variables)
    /\ issued' = Put(issued, name, EmptyDict)
    /\ failed_since_begin' = Put(failed_since_begin, name, {})
    /\ UNCHANGED <<last_commit_ts, last_writer, version_history, site_status,
                   recovered_variables, variable_map, committed_log,
                   applied_since_recover, applied_since_fail, ever_failed,
                   site_cmds>>

\* A slip: the status test left out, so that a command naming an ended
\* transaction is carried out.
accepts_known(name) == name \in DOMAIN transaction_map

\* A command naming an unknown or terminal transaction returns at once.
Accepts(name) ==
    /\ name \in DOMAIN transaction_map
    /\ transaction_map[name].status = "RUNNING"

\* A slip: a read served from the replicas as they are now, not from the
\* snapshot.
read_value_live(txn, var) ==
    IF var \in DOMAIN txn.uncommitted_variables THEN txn.uncommitted_variables[var]
    ELSE IF var \notin DOMAIN get_current_variables THEN None
    ELSE get_current_variables[var]

\* A slip: the snapshot consulted before the transaction's own buffer.
read_value_snapshot_first(txn, var) ==
    IF var \in DOMAIN txn.snapshot THEN txn.snapshot[var]
    ELSE IF var \in DOMAIN txn.uncommitted_variables
    THEN txn.uncommitted_variables[var]
    ELSE None

\* A slip: the read aborts only when no replica is readable now.
read_request_live(txn, var) ==
    IF var \notin DOMAIN txn.uncommitted_variables
       /\ var \notin DOMAIN get_current_variables
    THEN [txn EXCEPT !.status = "ABORTED"]
    ELSE [txn EXCEPT !.read_set = @ \cup {var}]

\* TransactionManager.read_request: the value read, None when the read aborts.
read_value(txn, var) ==
    IF var \in DOMAIN txn.uncommitted_variables THEN txn.uncommitted_variables[var]
    ELSE IF var \notin DOMAIN txn.snapshot THEN None
    ELSE txn.snapshot[var]

read_request(txn, var) ==
    IF var \notin DOMAIN txn.uncommitted_variables /\ var \notin DOMAIN txn.snapshot
    THEN [txn EXCEPT !.status = "ABORTED"]
    ELSE [txn EXCEPT !.read_set = @ \cup {var}]

Read(name, var) ==
    /\ current_time' = current_time + 1
    /\ dep_graph' = clear_aborted(dep_graph)
    /\ IF Accepts(name)
       THEN LET txn == read_request(transaction_map[name], var) IN
            /\ transaction_map' = [transaction_map EXCEPT ![name] = txn]
            /\ last_log' = [NoLog EXCEPT
                   !.op = "R", !.txn = name, !.var = var,
                   !.val = read_value(transaction_map[name], var),
                   !.what = IF txn.status = "ABORTED" THEN "cannot read" ELSE "read"]
       ELSE /\ transaction_map' = transaction_map
            /\ last_log' = NoLog
    /\ UNCHANGED <<last_commit_ts, last_writer, version_history, site_status,
                   recovered_variables, variable_map, hist_vars, site_cmds>>

\* TransactionManager.write_request: buffer the write and remember the sites
\* of the variable that are not DOWN now.
write_request(txn, var, value) ==
    [txn EXCEPT !.uncommitted_variables = Put(@, var, value),
                !.write_set = @ \cup {var},
                !.write_sites = @ \cup {s \in get_site_range(get_sites(var)) :
                                            site_status[s] # "DOWN"}]

\* get_site raises ValueError for a variable whose site is not in the run.
Writable(var) == \A s \in get_site_range(get_sites(var)) : check_index_sanity(s)

\* A slip: the write goes through to the sites of the variable that are
\* not DOWN as soon as it is issued.
write_through(name, var, value) ==
    /\ Accepts(name) => Writable(var)
    /\ current_time' = current_time + 1
    /\ dep_graph' = clear_aborted(dep_graph)
    /\ IF Accepts(name)
       THEN /\ transaction_map' = [transaction_map EXCEPT
                   ![name] = write_request(transaction_map[name], var, value)]
            /\ last_log' = [NoLog EXCEPT !.op = "W", !.txn = name, !.var = var,
                                         !.val = value, !.what = "buffered"]
            /\ issued' = [issued EXCEPT ![name] = Put(@, var, value)]
            /\ variable_map' =
                   [s \in Sites |-> [i \in DOMAIN variable_map[s] |->
                       IF i = var /\ site_status[s] # "DOWN" THEN value
                       ELSE variable_map[s][i]]]
       ELSE /\ transaction_map' = transaction_map
            /\ last_log' = NoLog
            /\ issued' = issued
            /\ variable_map' = variable_map
    /\ UNCHANGED <<last_commit_ts, last_writer, version_history, site_status,
                   recovered_variables, begin_snapshot,
                   failed_since_begin, committed_log, applied_since_recover,
                   applied_since_fail, ever_failed, site_cmds>>

Write(name, var, value) ==
    /\ Accepts(name) => Writable(var)
    /\ current_time' = current_time + 1
    /\ dep_graph' = clear_aborted(dep_graph)
    /\ IF Accepts(name)
       THEN /\ transaction_map' = [transaction_map EXCEPT
                   ![name] = write_request(transaction_map[name], var, value)]
            /\ last_log' = [NoLog EXCEPT !.op = "W", !.txn = name, !.var = var,
                                         !.val = value, !.what = "buffered"]
            /\ issued' = [issued EXCEPT ![name] = Put(@, var, value)]
       ELSE /\ transaction_map' = transaction_map
            /\ last_log' = NoLog
            /\ issued' = issued
    /\ UNCHANGED <<last_commit_ts, last_writer, version_history, site_status,
                   recovered_variables, variable_map, begin_snapshot,
                   failed_since_begin, committed_log, applied_since_recover,
                   applied_since_fail, ever_failed, site_cmds>>

\* ------------------------------------------------------------------ end
\* A slip in phase 1: the writer test inverted, so that a commit by another
\* name is never a conflict.
si_conflict_same_writer(txn, name) ==
    \E var \in DOMAIN txn.uncommitted_variables :
        /\ var \in DOMAIN last_commit_ts
        /\ last_commit_ts[var] > txn.start_ts
        /\ last_writer[var] = name

\* commit_transaction, phase 1: some buffered variable was committed by
\* another name after this transaction began (first committer wins).
si_conflict(txn, name) ==
    \E var \in DOMAIN txn.uncommitted_variables :
        LET last_ts == IF var \in DOMAIN last_commit_ts
                       THEN last_commit_ts[var] ELSE -1
        IN /\ last_ts > txn.start_ts
           /\ ~(var \in DOMAIN last_writer /\ last_writer[var] = name)

\* TransactionManager._add_edge: no self-edge; the source node is created.
add_edge(g, frm, to) ==
    IF frm = to THEN g
    ELSE Put(g, frm, (IF frm \in DOMAIN g THEN g[frm] ELSE {}) \cup {to})

RECURSIVE add_edges(_, _)
add_edges(g, edges) ==
    IF edges = {} THEN g
    ELSE LET e == CHOOSE x \in edges : TRUE
         IN add_edges(add_edge(g, e[1], e[2]), edges \ {e})

\* A slip: a write-write edge always runs from the other writer to the
\* committing one, whichever began first.
conflict_edges_to_committer(tm, name, txn) ==
    {<<other_name, name>> :
        other_name \in {o \in DOMAIN tm :
            /\ o # name /\ tm[o].status # "ABORTED"
            /\ txn.write_set \cap (tm[o].read_set \cup tm[o].write_set) # {}}}

\* TransactionManager._record_conflicts_on_commit: the edges that the
\* commit of txn (named name) adds, against every other transaction of
\* the map that is not ABORTED.
conflict_edges(tm, name, txn) ==
    UNION {
        LET other == tm[other_name]
            has_read == var \in other.read_set
            has_write == var \in other.write_set
        IN (IF has_read /\ other.start_ts # None /\ txn.commit_ts # None
                        /\ other.start_ts < txn.commit_ts
            THEN {<<other_name, name>>} ELSE {})
           \cup
           (IF has_write /\ ~has_read
            THEN IF other.start_ts # None /\ txn.start_ts # None
                    /\ other.start_ts <= txn.start_ts
                 THEN {<<other_name, name>>}
                 ELSE {<<name, other_name>>}
            ELSE {})
        : var \in txn.write_set,
          other_name \in {o \in DOMAIN tm : o # name /\ tm[o].status # "ABORTED"}}

record_conflicts_on_commit(g, tm, name, txn) ==
    add_edges(g, conflict_edges(tm, name, txn))

\* TransactionManager._has_cycle_from: depth-first search from start_name
\* with the visited set and the recursion stack; a neighbour that is on
\* the stack closes a cycle.  Each call returns (found, visited).
RECURSIVE dfs(_, _, _, _), dfs_nbrs(_, _, _, _)
dfs_nbrs(g, todo, visited, stack) ==
    IF todo = {} THEN [found |-> FALSE, visited |-> visited]
    ELSE LET v == CHOOSE x \in todo : TRUE IN
         IF v \notin visited
         THEN LET r == dfs(g, v, visited, stack) IN
              IF r.found THEN r ELSE dfs_nbrs(g, todo \ {v}, r.visited, stack)
         ELSE IF v \in stack THEN [found |-> TRUE, visited |-> visited]
         ELSE dfs_nbrs(g, todo \ {v}, visited, stack)

dfs(g, u, visited, stack) ==
    dfs_nbrs(g, IF u \in DOMAIN g THEN g[u] ELSE {},
             visited \cup {u}, stack \cup {u})

\* A slip: the search never reports a cycle.
finds_no_cycle(g, start_name) == FALSE

\* TransactionManager._has_cycle_from
has_cycle_from(g, start_name) == dfs(g, start_name, {}, {}).found

\* commit_transaction, phase 5: the sites a buffered variable is written
\* to: its sites that are in write_sites and are not DOWN now.
commit_targets(txn, var) ==
    {s \in get_site_range(get_sites(var)) :
        s \in txn.write_sites /\ site_status[s] # "DOWN"}

\* A slip: only an UP site takes the write.
write_accepted_up_only(s) == site_status[s] = "UP"

\* Site.write_variable refuses the write when the site is DOWN.
write_accepted(s) == site_status[s] # "DOWN"

\* Site.write_variable: an even variable written at a RECOVERING site
\* becomes readable there.
marks_recovered(s, var) == site_status[s] = "RECOVERING" /\ var % 2 = 0

\* The variables of the buffer that the commit stores at site s
\* (DataManager.write_variable stores only what the site hosts).
stored_at(txn, s) ==
    {var \in DOMAIN txn.uncommitted_variables :
        /\ s \in commit_targets(txn, var)
        /\ write_accepted(s)
        /\ var \in DOMAIN variable_map[s]}

landed_at(txn, s) ==
    {var \in DOMAIN txn.uncommitted_variables :
        s \in commit_targets(txn, var) /\ write_accepted(s)}

\* A slip: the new version put at the head of the history.
prepend_version(h, ts, name) == <<<<ts, name>>>> \o h

\* commit_transaction, phase 2: the new version ends the history.
append_version(h, ts, name) == Append(h, <<ts, name>>)

\* A slip: the tick of the end command taken as the commit timestamp, the
\* clock not advanced again.
stamped_txn_no_tick(name) ==
    [transaction_map[name] EXCEPT !.commit_ts = current_time + 1]

\* commit_transaction, phase 2: the clock advances once more and is the
\* commit timestamp (the tick of the end command came first).
stamped_txn(name) ==
    [transaction_map[name] EXCEPT !.commit_ts = current_time + 2]

\* A slip: the cycle branch clears the buffer and forgets the status.
cycle_cleared_only(txn) == [txn EXCEPT !.uncommitted_variables = EmptyDict]

\* commit_transaction, phase 4, when the search finds a cycle: the
\* transaction is ABORTED and its buffer cleared.
cycle_aborted(txn) ==
    [txn EXCEPT !.status = "ABORTED", !.uncommitted_variables = EmptyDict]

\* commit_transaction, phase 3: the graph the cycle check searches, after
\* tick's clear_aborted and the edges of this commit.
graph_at_commit(name) ==
    record_conflicts_on_commit(clear_aborted(dep_graph), transaction_map,
                               name, stamped_txn(name))

\* end(T): tick's clock and clear_aborted, TransactionManager.end and
\* commit_transaction.
End(name) ==
    LET g0 == clear_aborted(dep_graph) IN
    IF ~Accepts(name)
    THEN /\ current_time' = current_time + 1
         /\ dep_graph' = g0
         /\ last_log' = NoLog
         /\ UNCHANGED <<transaction_map, last_commit_ts, last_writer,
                        version_history, site_status, recovered_variables,
                        variable_map, hist_vars, site_cmds>>
    ELSE
    LET txn == transaction_map[name] IN
    IF si_conflict(txn, name)
    THEN \* phase 1 aborts; end() removes the transaction from the graph
         /\ current_time' = current_time + 1
         /\ transaction_map' =
                [transaction_map EXCEPT ![name].status = "ABORTED"]
         /\ dep_graph' = remove_txn_from_graph(g0, name)
         /\ last_log' = [NoLog EXCEPT !.op = "end", !.txn = name,
                                      !.what = "aborted: SI write-write conflict"]
         /\ UNCHANGED <<last_commit_ts, last_writer, version_history,
                        site_status, recovered_variables, variable_map,
                        hist_vars, site_cmds>>
    ELSE
    LET stamped == stamped_txn(name)
        ts == stamped.commit_ts
        vh == [i \in Vars |->
                  IF i \in DOMAIN txn.uncommitted_variables
                  THEN append_version(version_history[i], stamped.commit_ts, name)
                  ELSE version_history[i]]
        g1 == graph_at_commit(name)
    IN
    /\ current_time' = ts
    /\ version_history' = vh
    /\ IF has_cycle_from(g1, name)
       THEN \* phase 4 aborts
            /\ transaction_map' =
                   [transaction_map EXCEPT ![name] = cycle_aborted(stamped)]
            /\ dep_graph' = remove_txn_from_graph(g1, name)
            /\ last_log' = [NoLog EXCEPT !.op = "end", !.txn = name,
                                         !.what = "aborted: SSI cycle"]
            /\ UNCHANGED <<last_commit_ts, last_writer, site_status,
                           recovered_variables, variable_map, hist_vars,
                           site_cmds>>
       ELSE \* phase 5
            /\ variable_map' =
                   [s \in Sites |-> [i \in DOMAIN variable_map[s] |->
                       IF i \in stored_at(txn, s)
                       THEN txn.uncommitted_variables[i]
                       ELSE variable_map[s][i]]]
            /\ recovered_variables' =
                   [s \in Sites |-> recovered_variables[s] \cup
                       {i \in landed_at(txn, s) : marks_recovered(s, i)}]
            /\ last_commit_ts' =
                   [i \in DOMAIN last_commit_ts \cup DOMAIN txn.uncommitted_variables |->
                       IF i \in DOMAIN txn.uncommitted_variables THEN ts
                       ELSE last_commit_ts[i]]
            /\ last_writer' =
                   [i \in DOMAIN last_writer \cup DOMAIN txn.uncommitted_variables |->
                       IF i \in DOMAIN txn.uncommitted_variables THEN name
                       ELSE last_writer[i]]
            /\ transaction_map' = [transaction_map EXCEPT ![name] =
                   [stamped EXCEPT !.status = "COMMITTED"]]
            /\ dep_graph' = g1
            /\ last_log' = [NoLog EXCEPT !.op = "end", !.txn = name,
                                         !.what = "committed"]
            /\ committed_log' = committed_log \cup
                   {[name |-> name, start_ts |-> txn.start_ts, commit_ts |-> ts,
                     read_set |-> txn.read_set, write_set |-> txn.write_set,
                     writes |-> txn.uncommitted_variables,
                     write_sites |-> txn.write_sites,
                     failed |-> failed_since_begin[name]]}
            /\ applied_since_recover' =
                   [s \in Sites |-> applied_since_recover[s] \cup stored_at(txn, s)]
            /\ applied_since_fail' =
                   [s \in Sites |-> applied_since_fail[s] \cup stored_at(txn, s)]
            /\ UNCHANGED <<site_status, begin_snapshot, issued,
                           failed_since_begin, ever_failed, site_cmds>>

\* One command of the script: InstructionIO.run hands dump/fail/recover to
\* the site manager and everything else to the transaction manager.
SiteCommand(budget) ==
    \/ \E s \in Sites : site_cmds < budget /\ Fail(s)
    \/ \E s \in Sites : site_cmds < budget /\ Recover(s)

TxnCommand(cap) ==
    \/ \E n \in TxnNames : ~Raised /\ current_time < cap /\ Begin(n)
    \/ \E n \in TxnNames, i \in Vars :
           ~Raised /\ current_time < cap /\ Read(n, i)
    \/ \E n \in TxnNames, i \in Vars, v \in WriteValues :
           ~Raised /\ current_time < cap /\ Write(n, i, v)
    \/ \E n \in TxnNames : ~Raised /\ current_time < cap /\ End(n)

Next == SiteCommand(MaxSiteCmds) \/ TxnCommand(MaxTime)

Spec == Init /\ [][Next]_vars

\* Scripts without fail and recover, which can then be longer.
NextTxn == TxnCommand(MaxTimeTxn)

SpecTxn == Init /\ [][NextTxn]_vars

\* Scripts whose fail and recover name any site id, in the run or not;
\* no command follows one that raised.
SiteIds == 0..(NUM_SITES + 1)

SiteCommandAny(budget) ==
    \/ \E i \in SiteIds : ~Raised /\ site_cmds < budget /\ Fail(i)
    \/ \E i \in SiteIds : ~Raised /\ site_cmds < budget /\ Recover(i)

NextErr == SiteCommandAny(MaxCmdsErr) \/ TxnCommand(MaxTimeErr)

SpecErr == Init /\ [][NextErr]_vars

\* Scripts of three transactions.  To reach a graph with an edge between
\* two transactions and a cycle through the third within the cap, the
\* script starts with
\*   begin(T1); begin(T2); begin(T3); R(T1,x1); W(T1,x2,v); R(T3,x2);
\*   W(T3,x1,v); end(T1)
\* (one command per clock value, the commit of T1 taking two) and goes on
\* with any commands.
TxnNames3 == {"T1", "T2", "T3"}

PrefixAt ==
    [t \in 0..7 |->
        CASE t = 0 -> [op |-> "begin", txn |-> "T1", var |-> 0]
          [] t = 1 -> [op |-> "begin", txn |-> "T2", var |-> 0]
          [] t = 2 -> [op |-> "begin", txn |-> "T3", var |-> 0]
          [] t = 3 -> [op |-> "R", txn |-> "T1", var |-> 1]
          [] t = 4 -> [op |-> "W", txn |-> "T1", var |-> 2]
          [] t = 5 -> [op |-> "R", txn |-> "T3", var |-> 2]
          [] t = 6 -> [op |-> "W", txn |-> "T3", var |-> 1]
          [] t = 7 -> [op |-> "end", txn |-> "T1", var |-> 0]]

InScript(op, n, i) ==
    current_time \in DOMAIN PrefixAt =>
        PrefixAt[current_time] = [op |-> op, txn |-> n, var |-> i]

GraphCommand(cap) ==
    \/ \E n \in TxnNames3 :
           current_time < cap /\ InScript("begin", n, 0) /\ Begin(n)
    \/ \E n \in TxnNames3, i \in Vars :
           current_time < cap /\ InScript("R", n, i) /\ Read(n, i)
    \/ \E n \in TxnNames3, i \in Vars, v \in WriteValues :
           current_time < cap /\ InScript("W", n, i) /\ Write(n, i, v)
    \/ \E n \in TxnNames3 :
           current_time < cap /\ InScript("end", n, 0) /\ End(n)

NextGraph == GraphCommand(MaxTimeGraph)

SpecGraph == Init /\ [][NextGraph]_vars

\* Scripts that use a name again and fail a site late.  The script starts
\* with
\*   begin(T1); W(T1,x2,v); end(T1); begin(T1); begin(T2); begin(T3);
\*   R(T3,x2); W(T2,x2,v); W(T1,x2,v); end(T2)
\* (the first T1 commits; when T2 commits the second T1 is RUNNING with a
\* write of x2 and T3 with a read of it, each with an edge to T2) and goes
\* on with any commands, fail and recover included.
PrefixReuseAt ==
    [t \in (0..2) \cup (4..10) |->
        CASE t = 0 -> [op |-> "begin", txn |-> "T1", var |-> 0]
          [] t = 1 -> [op |-> "W", txn |-> "T1", var |-> 2]
          [] t = 2 -> [op |-> "end", txn |-> "T1", var |-> 0]
          [] t = 4 -> [op |-> "begin", txn |-> "T1", var |-> 0]
          [] t = 5 -> [op |-> "begin", txn |-> "T2", var |-> 0]
          [] t = 6 -> [op |-> "begin", txn |-> "T3", var |-> 0]
          [] t = 7 -> [op |-> "R", txn |-> "T3", var |-> 2]
          [] t = 8 -> [op |-> "W", txn |-> "T2", var |-> 2]
          [] t = 9 -> [op |-> "W", txn |-> "T1", var |-> 2]
          [] t = 10 -> [op |-> "end", txn |-> "T2", var |-> 0]]

InReuseScript(op, n, i) ==
    current_time \in DOMAIN PrefixReuseAt =>
        PrefixReuseAt[current_time] = [op |-> op, txn |-> n, var |-> i]

AfterReuseScript == \A t \in DOMAIN PrefixReuseAt : t < current_time

ReuseCommand(cap, budget) ==
    \/ \E n \in TxnNames3 :
           current_time < cap /\ InReuseScript("begin", n, 0) /\ Begin(n)
    \/ \E n \in TxnNames3, i \in Vars :
           current_time < cap /\ InReuseScript("R", n, i) /\ Read(n, i)
    \/ \E n \in TxnNames3, i \in Vars, v \in WriteValues :
           current_time < cap /\ InReuseScript("W", n, i) /\ Write(n, i, v)
    \/ \E n \in TxnNames3 :
           current_time < cap /\ InReuseScript("end", n, 0) /\ End(n)
    \/ \E s \in Sites : AfterReuseScript /\ site_cmds < budget /\ Fail(s)
    \/ \E s \in Sites : AfterReuseScript /\ site_cmds < budget /\ Recover(s)

NextReuse == ReuseCommand(MaxTimeReuse, MaxCmdsReuse)

SpecReuse == Init /\ [][NextReuse]_vars

\* Scripts of every kind of command, dump included.
DumpCommand(budget) == \E p \in DumpParams : site_cmds < budget /\ Dump(p)

NextDump ==
    SiteCommand(MaxCmdsDump) \/ DumpCommand(MaxCmdsDump) \/ TxnCommand(MaxTimeDump)

SpecDump == Init /\ [][NextDump]_vars

\* ------------------------------------------------------------ the claims
\* Two committed transactions were concurrent: each began before the other
\* received its end (the end's tick is commit_ts - 1, never a start_ts).
Concurrent(a, b) == a.start_ts < b.commit_ts /\ b.start_ts < a.commit_ts

\* a read x and wrote y while b read y and wrote x, x # y.
WriteSkew(a, b) ==
    \E x, y \in Vars :
        /\ x # y
        /\ x \in a.read_set /\ y \in a.write_set
        /\ y \in b.read_set /\ x \in b.write_set

\* C1: write skew is never committed: of two concurrent transactions T1
\* and T2, where T1 reads x and writes y and T2 reads y and writes x, at
\* most one ends COMMITTED.
C1_NoWriteSkewCommitted ==
    \A a, b \in committed_log :
        (a # b /\ Concurrent(a, b)) => ~WriteSkew(a, b)

\* C2: first committer wins: no two COMMITTED transactions whose lifetimes
\* overlap both wrote the same variable.
C2_FirstCommitterWins ==
    \A a, b \in committed_log :
        (a # b /\ a.write_set \cap b.write_set # {}) => ~Concurrent(a, b)

\* C2 witness: an end has been refused by the SI check against a committed
\* concurrent writer of the same variable.
C2_Witness ==
    /\ last_log.op = "end"
    /\ last_log.what = "aborted: SI write-write conflict"
    /\ \E a \in committed_log :
           LET t == transaction_map[last_log.txn] IN
           /\ t.status = "ABORTED"
           /\ a.write_set \cap t.write_set # {}
           /\ t.start_ts < a.commit_ts
           /\ a.start_ts < current_time

\* The last command was an accepted R(n, x): n was RUNNING when it arrived.
LastRead(n, x) == last_log.op = "R" /\ last_log.txn = n /\ last_log.var = x

\* C3: snapshot reads are frozen at begin: a read by a RUNNING transaction
\* of a variable it has not written returns the value the variable had in
\* the snapshot taken at its begin, whatever happened since.
C3_SnapshotReadsFrozen ==
    \A n \in TxnNames, x \in Vars :
        (LastRead(n, x) /\ x \notin DOMAIN issued[n]
                        /\ x \in DOMAIN begin_snapshot[n])
            => last_log.val = begin_snapshot[n][x]

\* C3 witness: a read returned the value of the begin although the
\* readable replicas hold another value by now.
C3_Witness ==
    \E n \in TxnNames, x \in Vars :
        /\ LastRead(n, x) /\ x \notin DOMAIN issued[n]
        /\ x \in DOMAIN begin_snapshot[n]
        /\ last_log.val = begin_snapshot[n][x]
        /\ x \in DOMAIN get_current_variables
        /\ get_current_variables[x] # last_log.val

\* The committed write to x that a transaction begun at start_ts comes
\* after, with no other committed write to x in between.
LatestBefore(c, x, start_ts) ==
    /\ x \in c.write_set
    /\ c.commit_ts < start_ts
    /\ ~\E d \in committed_log :
          x \in d.write_set /\ d.commit_ts > c.commit_ts /\ d.commit_ts < start_ts

\* C4: a committed write is visible to later transactions: a read of x
\* that returns a value, by a transaction begun after the latest commit of
\* a write to x, returns the committed value.
C4_CommittedWriteVisible ==
    \A n \in TxnNames, x \in Vars, c \in committed_log :
        (/\ LastRead(n, x) /\ last_log.val # None
         /\ x \notin DOMAIN issued[n]
         /\ LatestBefore(c, x, transaction_map[n].start_ts))
            => last_log.val = c.writes[x]

\* A transaction that a failure of one of its write sites has aborted.
AbortedByFailure(n) ==
    /\ n \in DOMAIN transaction_map
    /\ transaction_map[n].status = "ABORTED"
    /\ transaction_map[n].write_sites \cap failed_since_begin[n] # {}

\* C5: fail(i) aborts, within the command, every RUNNING transaction that
\* has site i in write_sites; a later end of such a transaction neither
\* commits it nor changes what any site stores.
C5_FailAbortsWriters ==
    [][/\ \A s \in Sites : Fail(s) =>
             \A n \in DOMAIN transaction_map :
                 (transaction_map[n].status = "RUNNING"
                    /\ s \in transaction_map[n].write_sites)
                 => transaction_map'[n].status = "ABORTED"
       /\ \A n \in TxnNames : (AbortedByFailure(n) /\ End(n)) =>
             /\ transaction_map'[n].status = "ABORTED"
             /\ variable_map' = variable_map
             /\ recovered_variables' = recovered_variables
             /\ committed_log' = committed_log]_vars

\* C5 witness: the last command was fail(i) and a transaction that had
\* written to site i is ABORTED.
C5_Witness ==
    /\ last_log.op = "fail"
    /\ \E n \in DOMAIN transaction_map :
          /\ AbortedByFailure(n)
          /\ last_log.site \in transaction_map[n].write_sites
          /\ transaction_map[n].uncommitted_variables # EmptyDict

\* The values of x that transaction c or a later committer wrote.
ValueOrLater(c, x) ==
    {c.writes[x]} \cup
    {d.writes[x] : d \in {e \in committed_log :
                              x \in e.write_set /\ e.commit_ts > c.commit_ts}}

\* C6: for every COMMITTED transaction T and every variable of its write
\* set, every UP or RECOVERING site that hosts the variable, was in T's
\* write_sites and did not fail between T's start and commit stores T's
\* value or a later committer's.
C6_CommittedWritesStored ==
    \A c \in committed_log, x \in Vars, s \in Sites :
        (/\ x \in c.write_set
         /\ site_status[s] # "DOWN"
         /\ x \in HostedAt(s)
         /\ s \in c.write_sites
         /\ s \notin c.failed)
            => variable_map[s][x] \in ValueOrLater(c, x)

\* C6 witness: a RECOVERING site that was in the write sites of a
\* committed transaction stores the value it wrote.
C6_Witness ==
    \E c \in committed_log, x \in Vars, s \in Sites :
        /\ x \in c.write_set /\ x \in HostedAt(s)
        /\ s \in c.write_sites /\ s \notin c.failed
        /\ site_status[s] = "RECOVERING"
        /\ variable_map[s][x] = c.writes[x]
        /\ variable_map[s][x] # 10 * x

C8_ReadOutsideSnapshotAborts ==
    \A n \in TxnNames, x \in Vars :
        (LastRead(n, x) /\ x \notin DOMAIN issued[n]
                        /\ x \notin DOMAIN begin_snapshot[n])
            => /\ transaction_map[n].status = "ABORTED"
               /\ last_log.val = None

\* C8 witness: such a read has aborted its transaction although a replica
\* of the variable is readable again.
C8_Witness ==
    \E n \in TxnNames, x \in Vars :
        /\ LastRead(n, x) /\ x \notin DOMAIN issued[n]
        /\ x \notin DOMAIN begin_snapshot[n]
        /\ transaction_map[n].status = "ABORTED"
        /\ x \in DOMAIN get_current_variables

\* C9: read your writes: a read by a RUNNING transaction of a variable it
\* has written returns the value of its latest write and does not abort
\* it, also when the variable is absent from its snapshot.
C9_ReadYourWrites ==
    \A n \in TxnNames, x \in Vars :
        (LastRead(n, x) /\ x \in DOMAIN issued[n])
            => /\ last_log.val = issued[n][x]
               /\ transaction_map[n].status = "RUNNING"

\* C9 witness: a transaction read back its own write of a variable that
\* its snapshot lacks.
C9_Witness ==
    \E n \in TxnNames, x \in Vars :
        /\ LastRead(n, x) /\ x \in DOMAIN issued[n]
        /\ last_log.val = issued[n][x]
        /\ x \notin DOMAIN begin_snapshot[n]
        /\ transaction_map[n].status = "RUNNING"

\* The nodes of graph g that a path of at least one edge leads to from u.
Succ(g, S) == UNION {IF u \in DOMAIN g THEN g[u] ELSE {} : u \in S}

RECURSIVE ReachFrom(_, _, _)
ReachFrom(g, frontier, seen) ==
    IF frontier \subseteq seen THEN seen
    ELSE ReachFrom(g, Succ(g, frontier), seen \cup frontier)

Reach(g, u) == ReachFrom(g, Succ(g, {u}), {})

\* Some cycle of g can be reached from n.
CycleReachableFrom(g, n) == \E u \in {n} \cup Reach(g, n) : u \in Reach(g, u)

\* The four events that abort a RUNNING transaction n in one step.
ReadOutsideSnapshot(n) ==
    \E x \in Vars : /\ Read(n, x)
                    /\ x \notin DOMAIN begin_snapshot[n]
                    /\ x \notin DOMAIN issued[n]

WriteWriteConflictAtEnd(n) ==
    /\ End(n)
    /\ \E c \in committed_log :
          /\ c.name # n
          /\ c.commit_ts > transaction_map[n].start_ts
          /\ c.write_set \cap DOMAIN issued[n] # {}

CycleAtEnd(n) == End(n) /\ CycleReachableFrom(graph_at_commit(n), n)

WriteSiteFailed(n) ==
    \E s \in Sites : Fail(s) /\ s \in transaction_map[n].write_sites

Terminal(n) ==
    /\ n \in DOMAIN transaction_map
    /\ transaction_map[n].status \in {"COMMITTED", "ABORTED"}

\* C11: once a transaction is COMMITTED or ABORTED, no later R, W, end,
\* fail, recover or dump command changes its status (a begin of the same
\* name starts another transaction).
C11_TerminalStatusKept ==
    [][\A n \in TxnNames :
          (Terminal(n) /\ ~Begin(n))
          => /\ n \in DOMAIN transaction_map'
             /\ transaction_map'[n].status = transaction_map[n].status]_vars

\* C11 witness: a site has just failed that a COMMITTED transaction had
\* written to, and the transaction is still COMMITTED.
C11_Witness ==
    /\ last_log.op = "fail"
    /\ \E n \in DOMAIN transaction_map :
          /\ transaction_map[n].status = "COMMITTED"
          /\ last_log.site \in transaction_map[n].write_sites

\* C12: for every transaction, commit_ts is set if and only if its status
\* is COMMITTED; when set, it is greater than the transaction's start_ts
\* and differs from every other timestamp assigned (the clock never goes
\* back, so it is greater than every timestamp assigned before it).
C12_CommitTsIffCommitted ==
    \A n \in DOMAIN transaction_map :
        LET t == transaction_map[n] IN
        /\ t.commit_ts # None <=> t.status = "COMMITTED"
        /\ t.commit_ts # None =>
              /\ t.commit_ts > t.start_ts
              /\ \A m \in DOMAIN transaction_map \ {n} :
                    /\ t.commit_ts # transaction_map[m].start_ts
                    /\ t.commit_ts # transaction_map[m].commit_ts

\* The step assigns a commit timestamp to some transaction.
CommitTsAssigned ==
    \E n \in DOMAIN transaction_map :
        /\ n \in DOMAIN transaction_map'
        /\ transaction_map'[n].commit_ts # None
        /\ transaction_map'[n].commit_ts # transaction_map[n].commit_ts

\* The step is a command of the site manager: fail, recover or dump.
SiteManagerCommand ==
    \/ \E s \in Sites : Fail(s) \/ Recover(s)
    \/ \E p \in DumpParams : Dump(p)

\* C13 as stated: current_time advances by exactly one on every inbound
\* command, whatever its kind (begin, R, W, end, fail, recover, dump), and
\* by one more when a commit timestamp is assigned.
C13_ClockPerCommand ==
    [][current_time' =
          current_time + 1 + (IF CommitTsAssigned THEN 1 ELSE 0)]_vars

\* C13 amended: current_time advances by exactly one on every begin, R, W
\* and end command and by one more when a commit timestamp is assigned;
\* fail, recover and dump leave it unchanged.
C13_ClockPerTxnCommand ==
    [][current_time' =
          current_time + (IF SiteManagerCommand THEN 0 ELSE 1)
                       + (IF CommitTsAssigned THEN 1 ELSE 0)]_vars

\* C13 witness: after a commit, a failure and a dump the clock is the
\* commit timestamp still.
C13_Witness ==
    /\ last_log.op = "dump"
    /\ ever_failed # {}
    /\ site_cmds >= 2
    /\ \E n \in DOMAIN transaction_map :
          /\ transaction_map[n].status = "COMMITTED"
          /\ transaction_map[n].commit_ts = current_time
          /\ transaction_map[n].write_sites \cap ever_failed # {}

\* C14: for every variable, the commit timestamps of the entries of its
\* version_history are strictly increasing in list order.
C14_VersionHistoryIncreasing ==
    \A i \in Vars : \A j, k \in 1..Len(version_history[i]) :
        j < k => version_history[i][j][1] < version_history[i][k][1]

\* C14 witness: a variable has two versions, by two writers.
C14_Witness ==
    \E i \in Vars :
        /\ Len(version_history[i]) >= 2
        /\ version_history[i][1][2] # version_history[i][2][2]

\* C15: every site whose status is DOWN has an empty recovered_variables.
C15_DownSiteNothingReadable ==
    \A s \in Sites : site_status[s] = "DOWN" => recovered_variables[s] = {}

\* C15 witness: a transaction has just committed a write to a variable
\* that a DOWN site hosts, and nothing is readable at that site.
C15_Witness ==
    /\ last_log.op = "end" /\ last_log.what = "committed"
    /\ \E s \in Sites, x \in Vars :
          /\ site_status[s] = "DOWN" /\ recovered_variables[s] = {}
          /\ x \in HostedAt(s)
          /\ x \in transaction_map[last_log.txn].write_set

\* A RUNNING transaction that has issued neither a read nor a write (a
\* read that succeeds is recorded in read_set, one that fails aborts).
Idle(n) ==
    /\ Accepts(n)
    /\ transaction_map[n].read_set = {}
    /\ transaction_map[n].write_set = {}

\* C16: a transaction that is begun and then ended without issuing any
\* read or write ends COMMITTED, whatever other commands occur between its
\* begin and its end: nothing but a read of its own aborts it, and its
\* end commits it.
C16_BeginEndCommits ==
    [][\A n \in TxnNames : Idle(n) =>
          /\ End(n) => transaction_map'[n].status = "COMMITTED"
          /\ transaction_map'[n].status = "ABORTED" =>
                \E x \in Vars : Read(n, x)]_vars

\* C16 witness: a transaction without reads and writes has just committed
\* although a site failed and another transaction committed a write since
\* its begin.
C16_Witness ==
    /\ last_log.op = "end" /\ last_log.what = "committed"
    /\ LET n == last_log.txn IN
       /\ transaction_map[n].read_set = {}
       /\ transaction_map[n].write_set = {}
       /\ failed_since_begin[n] # {}
       /\ \E c \in committed_log :
             /\ c.name # n /\ c.write_set # {}
             /\ c.commit_ts > transaction_map[n].start_ts

\* Transaction n is ABORTED before or after the step.
AbortedAround(n) ==
    \/ n \in DOMAIN transaction_map /\ transaction_map[n].status = "ABORTED"
    \/ n \in DOMAIN transaction_map' /\ transaction_map'[n].status = "ABORTED"

NamedBy(n) ==
    \/ \E x \in Vars : Read(n, x)
    \/ \E x \in Vars, v \in WriteValues : Write(n, x, v)
    \/ End(n)

\* C18: R, W and end commands that name an unknown transaction or one
\* that is already COMMITTED or ABORTED change no transaction, no site and
\* no entry of version_history, last_commit_ts or last_writer.
C18_IgnoredCommandsChangeNothing ==
    [][\A n \in TxnNames :
          (/\ n \notin DOMAIN transaction_map \/ Terminal(n)
           /\ last_log'.op \notin {"begin", "fail", "recover", "dump"}
           /\ NamedBy(n)) =>
          UNCHANGED <<transaction_map, site_status, recovered_variables,
                      variable_map, version_history, last_commit_ts,
                      last_writer>>]_vars

\* C18 witness: the last command was ignored, with a COMMITTED transaction
\* and an ABORTED one that has writes in its buffer in the map.
C18_Witness ==
    /\ last_log.op = "none" /\ current_time > 0
    /\ \E n, m \in DOMAIN transaction_map :
          /\ transaction_map[n].status = "COMMITTED"
          /\ transaction_map[m].status = "ABORTED"
          /\ transaction_map[m].uncommitted_variables # EmptyDict

\* The step is a W command: one that was accepted, which the log names,
\* or one that was ignored.
WriteCommand ==
    \/ /\ last_log'.op = "W"
       /\ Write(last_log'.txn, last_log'.var, last_log'.val)
    \/ /\ last_log'.op = "none"
       /\ \E n \in TxnNames, x \in Vars, v \in WriteValues : Write(n, x, v)

\* C19: W(T,x,v) only buffers: it changes no site's stored values, status
\* or recovered_variables; a stored value changes only in an end command
\* that leaves its transaction COMMITTED.
C19_WriteOnlyBuffers ==
    [][/\ WriteCommand
           => UNCHANGED <<variable_map, site_status, recovered_variables>>
       /\ variable_map' # variable_map =>
             \E n \in TxnNames :
                 /\ End(n)
                 /\ n \in DOMAIN transaction_map
                 /\ transaction_map[n].status = "RUNNING"
                 /\ transaction_map'[n].status = "COMMITTED"]_vars

\* C19 witness: a write has just been buffered whose value no site that
\* hosts the variable stores, one of them being able to take writes.
C19_Witness ==
    /\ last_log.op = "W" /\ last_log.what = "buffered"
    /\ transaction_map[last_log.txn].uncommitted_variables[last_log.var]
           = last_log.val
    /\ \E s \in Sites : /\ last_log.var \in HostedAt(s)
                         /\ site_status[s] # "DOWN"
    /\ \A s \in Sites : last_log.var \in HostedAt(s) =>
           variable_map[s][last_log.var] # last_log.val

\* C20: fail(i) is idempotent: a fail(i) that follows a fail(i) at once
\* changes no site's status, recovered_variables or stored values and no
\* transaction's status.
C20_FailIdempotent ==
    [][\A s \in Sites :
          (last_log.op = "fail" /\ last_log.site = s /\ Fail(s)) =>
              /\ UNCHANGED <<site_status, recovered_variables, variable_map>>
              /\ \A n \in DOMAIN transaction_map :
                    transaction_map'[n].status = transaction_map[n].status]_vars

\* C20 witness: fail(i) has just been repeated; the first one had aborted
\* a writer of site i, and another transaction is RUNNING still.
C20_Witness ==
    /\ last_log.op = "fail" /\ last_log.again
    /\ site_status[last_log.site] = "DOWN"
    /\ \E n, m \in DOMAIN transaction_map :
          /\ AbortedByFailure(n)
          /\ last_log.site \in transaction_map[n].write_sites
          /\ transaction_map[m].status = "RUNNING"

\* C21: recover(i) is idempotent: a recover(i) that follows a recover(i)
\* at once changes no site's status, recovered_variables or stored values.
C21_RecoverIdempotent ==
    [][\A s \in Sites :
          (last_log.op = "recover" /\ last_log.site = s /\ Recover(s)) =>
              UNCHANGED <<site_status, recovered_variables, variable_map>>]_vars

\* C21 witness: recover(i) has just been repeated on a site that had
\* failed and has a variable that is not readable yet.
C21_Witness ==
    /\ last_log.op = "recover" /\ last_log.again
    /\ last_log.site \in ever_failed
    /\ site_status[last_log.site] = "RECOVERING"
    /\ \E x \in HostedAt(last_log.site) :
          x \notin recovered_variables[last_log.site]

\* C22: fail(i) leaves every other site unchanged (status,
\* recovered_variables and stored values) and leaves unchanged every
\* transaction that does not have site i in its write_sites.
C22_FailTouchesOnlyItsSite ==
    [][\A s \in Sites : (last_log'.op = "fail" /\ Fail(s)) =>
          /\ \A j \in Sites \ {s} :
                /\ site_status'[j] = site_status[j]
                /\ recovered_variables'[j] = recovered_variables[j]
                /\ variable_map'[j] = variable_map[j]
          /\ \A n \in DOMAIN transaction_map :
                s \notin transaction_map[n].write_sites =>
                    transaction_map'[n] = transaction_map[n]]_vars

\* C22 witness: a site has just failed; a writer of that site is ABORTED,
\* a RUNNING transaction that wrote to another site only goes on, and
\* another site is not DOWN.
C22_Witness ==
    /\ last_log.op = "fail"
    /\ \E n, m \in DOMAIN transaction_map :
          /\ AbortedByFailure(n)
          /\ last_log.site \in transaction_map[n].write_sites
          /\ transaction_map[m].status = "RUNNING"
          /\ transaction_map[m].write_sites # {}
          /\ last_log.site \notin transaction_map[m].write_sites
    /\ \E j \in Sites \ {last_log.site} : site_status[j] # "DOWN"

\* The last command was dump(xN).
LastDumpVariable ==
    /\ last_log.op = "dump"
    /\ Len(last_log.param) > 0
    /\ last_log.param[1] = "x"

\* C23: dump(xN) emits the value of xN for exactly those sites that host
\* xN and hold a readable copy of it (site not DOWN and xN in its
\* recovered_variables); it emits nothing for a DOWN site or for a
\* RECOVERING site where xN is not yet readable.
C23_DumpVariableReadableOnly ==
    LastDumpVariable =>
        last_log.values = {<<s, variable_map[s][last_log.var]>> :
                              s \in ReadableAt(last_log.var)}

\* Python's str() of a site id.
DigitChar(d) ==
    CASE d = 0 -> "0" [] d = 1 -> "1" [] d = 2 -> "2" [] d = 3 -> "3"
      [] d = 4 -> "4" [] d = 5 -> "5" [] d = 6 -> "6" [] d = 7 -> "7"
      [] d = 8 -> "8" [] d = 9 -> "9"

RECURSIVE to_str(_)
to_str(i) ==
    IF i < 10 THEN <<DigitChar(i)>>
    ELSE to_str(i \div 10) \o <<DigitChar(i % 10)>>

\* C24: for every site id i, the command dump(i) emits the dump of site i
\* and of no other site.
C24_DumpSiteById ==
    \A i \in Sites :
        (last_log.op = "dump" /\ last_log.param = to_str(i))
            => last_log.dumped = {dump_site(i)}

\* C25: fail(i) and recover(i) with i outside 1..num_sites signal an
\* error (ValueError) and leave every site's state and every
\* transaction's state unchanged.
C25_OutOfRangeSiteRaises ==
    [][\A i \in SiteIds \ Sites :
          (last_log'.site = i /\ (Fail(i) \/ Recover(i))) =>
              /\ last_log'.what = "ValueError"
              /\ UNCHANGED <<site_status, recovered_variables, variable_map,
                             transaction_map>>]_vars

\* C25 witness: a fail of a site id above the range has just raised, with
\* a RUNNING transaction that has written somewhere and a site that is not
\* UP.
C25_Witness ==
    /\ last_log.op = "fail" /\ last_log.what = "ValueError"
    /\ last_log.site > NUM_SITES
    /\ \E n \in DOMAIN transaction_map :
          /\ transaction_map[n].status = "RUNNING"
          /\ transaction_map[n].write_sites # {}
    /\ \E s \in Sites : site_status[s] # "UP"

\* C26: for every variable with a non-empty version_history,
\* last_commit_ts and last_writer equal the commit timestamp and the
\* writer of the last entry of the history.
C26_LastCommitMirrorsHistory ==
    \A i \in Vars : Len(version_history[i]) > 0 =>
        LET last == version_history[i][Len(version_history[i])] IN
        /\ i \in DOMAIN last_commit_ts /\ last_commit_ts[i] = last[1]
        /\ i \in DOMAIN last_writer /\ last_writer[i] = last[2]

\* C27: version_history is appended only on commit: every entry
\* (commit_ts, writer) of every history belongs to a transaction of that
\* name that ended COMMITTED with that commit timestamp.
C27_HistoryOnlyOfCommitted ==
    \A i \in Vars : \A k \in 1..Len(version_history[i]) :
        \E c \in committed_log :
            /\ c.name = version_history[i][k][2]
            /\ c.commit_ts = version_history[i][k][1]
            /\ i \in c.write_set

\* The edges of a graph.
Edges(g) == UNION {{<<u, v>> : v \in g[u]} : u \in DOMAIN g}

\* The edges the tick of a command keeps: those without an ABORTED end.
KeptEdges ==
    {e \in Edges(dep_graph) :
        \A k \in {1, 2} : ~(/\ e[k] \in DOMAIN transaction_map
                             /\ transaction_map[e[k]].status = "ABORTED")}

\* The edges the commit of T (named n) is to add: for each variable var
\* written by T and each other transaction U that is not ABORTED, U -> T
\* if U read var; if U wrote var without reading it, U -> T when
\* U.start_ts <= T.start_ts and T -> U otherwise.
ExpectedEdges(n) ==
    LET T == transaction_map[n]
        Others == {u \in DOMAIN transaction_map \ {n} :
                      transaction_map[u].status # "ABORTED"}
    IN UNION {
         LET U == transaction_map[u] IN
         (IF var \in U.read_set THEN {<<u, n>>} ELSE {})
         \cup
         (IF var \in U.write_set /\ var \notin U.read_set
          THEN IF U.start_ts <= T.start_ts THEN {<<u, n>>} ELSE {<<n, u>>}
          ELSE {})
         : var \in T.write_set, u \in Others}

\* C28: when end(T) passes the SI check, the edges added to dep_graph are
\* exactly the expected ones (all of them stay when T commits, those that
\* do not touch T when the cycle check aborts it); no other command adds
\* an edge, and no self-edge ever exists.
C28_EdgesAddedAtCommit ==
    [][/\ \A e \in Edges(dep_graph') : e[1] # e[2]
       /\ IF last_log'.op = "end" /\ last_log'.what = "committed"
          THEN Edges(dep_graph') = KeptEdges \cup ExpectedEdges(last_log'.txn)
          ELSE IF last_log'.op = "end" /\ last_log'.what = "aborted: SSI cycle"
          THEN Edges(dep_graph') =
                   {e \in KeptEdges \cup ExpectedEdges(last_log'.txn) :
                       e[1] # last_log'.txn /\ e[2] # last_log'.txn}
          ELSE Edges(dep_graph') \subseteq Edges(dep_graph)]_vars

\* C28 witness: a commit has just added an edge from the committed
\* transaction to a RUNNING one that began later and wrote the same
\* variable without reading it.
C28_Witness ==
    /\ last_log.op = "end" /\ last_log.what = "committed"
    /\ \E u \in DOMAIN transaction_map :
          LET n == last_log.txn IN
          /\ u # n
          /\ Edges(dep_graph) = {<<n, u>>}
          /\ transaction_map[u].status = "RUNNING"
          /\ transaction_map[u].start_ts > transaction_map[n].start_ts
          /\ transaction_map[u].write_set \cap transaction_map[n].write_set # {}

\* A set of edges as a graph.
GraphOf(E) == [u \in {e[1] : e \in E} |-> {e[2] : e \in {d \in E : d[1] = u}}]

\* C29: when the cycle check of end(T) finds a cycle reachable from T, T
\* becomes ABORTED, its write buffer is emptied, and T is removed from
\* dep_graph both as a node and as a target of any edge; the edges of the
\* other transactions among themselves are kept.
C29_CycleAbortRemovesT ==
    [][LET n == last_log'.txn IN
       (/\ last_log'.op = "end"
        /\ last_log'.what \in {"committed", "aborted: SSI cycle"}
        /\ CycleReachableFrom(GraphOf(KeptEdges \cup ExpectedEdges(n)), n))
       => /\ transaction_map'[n].status = "ABORTED"
          /\ transaction_map'[n].uncommitted_variables = EmptyDict
          /\ n \notin DOMAIN dep_graph'
          /\ \A u \in DOMAIN dep_graph' : n \notin dep_graph'[u]
          /\ {e \in KeptEdges : e[1] # n /\ e[2] # n}
                 \subseteq Edges(dep_graph')]_vars

\* C29 witness: an end has just been aborted by the cycle check; the
\* transaction had writes, its buffer is empty, and an edge between two
\* other transactions is in the graph still.
C29_Witness ==
    /\ last_log.op = "end" /\ last_log.what = "aborted: SSI cycle"
    /\ LET n == last_log.txn IN
       /\ transaction_map[n].status = "ABORTED"
       /\ transaction_map[n].write_set # {}
       /\ transaction_map[n].uncommitted_variables = EmptyDict
       /\ \E e \in Edges(dep_graph) : e[1] # n /\ e[2] # n

\* The sites of the claim: not DOWN, hosting xi, xi in recovered_variables.
SnapshotSources(i) ==
    {s \in Sites : /\ i \in HostedAt(s)
                  /\ site_status[s] \in {"UP", "RECOVERING"}
                  /\ i \in recovered_variables[s]}

\* C30: the snapshot built at begin contains xi if and only if some site
\* that is not DOWN hosts xi and has xi in recovered_variables; the value
\* recorded is the one stored at the lowest-numbered such site; variables
\* with no readable replica are absent.
C30_SnapshotAtBegin ==
    [][last_log'.op = "begin"
       => LET snap == transaction_map'[last_log'.txn].snapshot IN
          /\ DOMAIN snap = {i \in Vars : SnapshotSources(i) # {}}
          /\ \A i \in DOMAIN snap :
                \E s \in SnapshotSources(i) :
                    /\ \A r \in SnapshotSources(i) : s <= r
                    /\ snap[i] = variable_map[s][i]]_vars

\* C30 witness: a transaction has just begun; for some variable a
\* lower-numbered site that hosts it is RECOVERING with a stale copy not in
\* recovered_variables, and the snapshot holds the value of a later site.
C30_Witness ==
    /\ last_log.op = "begin"
    /\ LET snap == transaction_map[last_log.txn].snapshot IN
       \E i \in DOMAIN snap : \E s, r \in {h \in Sites : i \in HostedAt(h)} :
           /\ r < s
           /\ site_status[r] = "RECOVERING"
           /\ i \notin recovered_variables[r]
           /\ variable_map[r][i] # variable_map[s][i]
           /\ s \in SnapshotSources(i)
           /\ snap[i] = variable_map[s][i]

\* The ABORTED transactions of a transaction map.
AbortedIn(tm) == {u \in DOMAIN tm : tm[u].status = "ABORTED"}

\* The transactions a graph mentions, as a node or as a target.
Mentioned(g) == DOMAIN g \cup UNION {g[u] : u \in DOMAIN g}

\* C31: whenever the cycle check of an end command runs, no ABORTED
\* transaction is in dep_graph, neither as a node nor as the target of an
\* edge (fail and a read that aborts leave the graph alone when they
\* happen); the graph the command leaves has none either.
C31_NoAbortedAtCycleCheck ==
    [][(/\ last_log'.op = "end"
        /\ last_log'.what \in {"committed", "aborted: SSI cycle"})
       => /\ Mentioned(graph_at_commit(last_log'.txn))
                \cap AbortedIn(transaction_map) = {}
          /\ Mentioned(dep_graph') \cap AbortedIn(transaction_map') = {}]_vars

\* C31 witness: the cycle check of an end has just run; another transaction
\* U was aborted by the failure of a site it wrote to, after a transaction
\* that is COMMITTED had committed a write of a variable U wrote too (the
\* commit that put U in the graph), and the graph does not mention U.
C31_Witness ==
    /\ last_log.op = "end"
    /\ last_log.what \in {"committed", "aborted: SSI cycle"}
    /\ \E u \in DOMAIN transaction_map \ {last_log.txn} :
          /\ AbortedByFailure(u)
          /\ transaction_map[u].commit_ts = None
          /\ u \notin Mentioned(dep_graph)
          /\ \E c \in committed_log :
                /\ c.name # u
                /\ c.write_set \cap transaction_map[u].write_set # {}
                /\ transaction_map[u].start_ts < c.commit_ts
                /\ c.write_sites \cap failed_since_begin[u] # {}
                /\ c.failed = {}

\* C32: the same-name bypass of the SI check is never taken: whenever
\* end(T) examines a written variable var with last_commit_ts[var] >
\* T.start_ts, last_writer[var] is not T's name, also when the name was
\* used before by a transaction that committed var.
C32_SameNameBypassUnreachable ==
    [][last_log'.op = "end"
       => LET n == last_log'.txn
              txn == transaction_map[n]
          IN \A var \in DOMAIN txn.uncommitted_variables :
                (/\ var \in DOMAIN last_commit_ts
                 /\ last_commit_ts[var] > txn.start_ts)
                => last_writer[var] # n]_vars

\* C32 witness: end(T) has just found a variable committed after T began,
\* by another name, and an earlier transaction of T's name had committed
\* that variable too.
C32_Witness ==
    /\ last_log.op = "end"
    /\ last_log.what = "aborted: SI write-write conflict"
    /\ LET n == last_log.txn
           txn == transaction_map[n]
       IN \E var \in DOMAIN txn.uncommitted_variables :
             /\ last_commit_ts[var] > txn.start_ts
             /\ last_writer[var] # n
             /\ \E k \in DOMAIN version_history[var] :
                   /\ version_history[var][k][2] = n
                   /\ version_history[var][k][1] < txn.start_ts

\* C33: replica agreement.  For every variable x, all the sites that are
\* not DOWN and have x in recovered_variables store the same value of x.
C33_ReplicaAgreement ==
    \A i \in Vars : \A s, r \in SnapshotSources(i) :
        variable_map[s][i] = variable_map[r][i]

\* C33 witness: two sites are readable for a variable whose value is a
\* committed write, one of them having failed and recovered before that
\* write reached it; a transaction holds another value of it in its buffer.
C33_Witness ==
    \E i \in Vars : \E s, r \in SnapshotSources(i) :
        /\ s # r
        /\ s \in ever_failed
        /\ i \in applied_since_fail[s]
        /\ variable_map[s][i] # 10 * i
        /\ variable_map[s][i] = variable_map[r][i]
        /\ \E n \in DOMAIN transaction_map :
              /\ i \in DOMAIN transaction_map[n].uncommitted_variables
              /\ transaction_map[n].uncommitted_variables[i] # variable_map[s][i]

\* C34: no site in the write_sites of a RUNNING transaction is DOWN, so
\* that phase 5 of a commit never skips a site for being DOWN: the writes
\* of a committing transaction reach every site of its write_sites that
\* hosts the variable.
C34_WriteSitesNeverDown ==
    [][/\ \A n \in DOMAIN transaction_map' :
            transaction_map'[n].status = "RUNNING"
            => \A s \in transaction_map'[n].write_sites :
                  site_status'[s] # "DOWN"
       /\ (last_log'.op = "end" /\ last_log'.what = "committed")
          => LET txn == transaction_map[last_log'.txn] IN
             \A var \in DOMAIN txn.uncommitted_variables :
                \A s \in txn.write_sites :
                   var \in HostedAt(s)
                   => variable_map'[s][var] = txn.uncommitted_variables[var]]_vars

\* C34 witness: a transaction has just committed; a site failed while it
\* was RUNNING (one it had not written to), and its writes are stored at
\* every site of its write_sites that hosts them.
C34_Witness ==
    /\ last_log.op = "end" /\ last_log.what = "committed"
    /\ LET txn == transaction_map[last_log.txn] IN
       /\ failed_since_begin[last_log.txn] # {}
       /\ txn.write_sites # {}
       /\ \A s \in txn.write_sites : site_status[s] # "DOWN"
       /\ \E var \in DOMAIN txn.uncommitted_variables :
             \E s \in txn.write_sites :
                /\ var \in HostedAt(s)
                /\ variable_map[s][var] = txn.uncommitted_variables[var]

\* C35: after every command dep_graph has no directed cycle.
C35_GraphAcyclic ==
    \A u \in Mentioned(dep_graph) : u \notin Reach(dep_graph, u)

\* C35 witness: the cycle check has just aborted an end whose edges closed
\* a cycle through a COMMITTED transaction, and the graph left still has
\* an edge to that transaction.
C35_Witness ==
    /\ last_log.op = "end" /\ last_log.what = "aborted: SSI cycle"
    /\ \E e \in Edges(dep_graph) :
          /\ transaction_map[e[2]].status = "COMMITTED"
          /\ transaction_map[e[2]].write_set
                \cap transaction_map[last_log.txn].read_set # {}
          /\ transaction_map[e[2]].read_set
                \cap transaction_map[last_log.txn].write_set # {}

\* C36: a transaction that has issued no write and is RUNNING when it
\* receives end ends COMMITTED, whatever it read: neither the SI check nor
\* the cycle check aborts it, and no site failure aborts it before.
C36_ReadOnlyCommits ==
    [][/\ last_log'.op = "end"
          => (transaction_map[last_log'.txn].write_set = {}
              => transaction_map'[last_log'.txn].status = "COMMITTED")
       /\ last_log'.op = "fail"
          => \A n \in DOMAIN transaction_map :
                (/\ transaction_map[n].status = "RUNNING"
                 /\ transaction_map[n].write_set = {})
                => transaction_map'[n].status = "RUNNING"]_vars

\* C36 witness: a transaction without writes has just committed; it had
\* read a variable that another transaction committed afterwards (it has
\* an edge in the graph), and a site failed while it was RUNNING.
C36_Witness ==
    /\ last_log.op = "end" /\ last_log.what = "committed"
    /\ LET n == last_log.txn IN
       /\ transaction_map[n].write_set = {}
       /\ transaction_map[n].read_set # {}
       /\ failed_since_begin[n] # {}
       /\ n \in DOMAIN dep_graph /\ dep_graph[n] # {}

\* C37: every end(T) that names a RUNNING transaction resolves it within
\* the command: when the command completes T is COMMITTED or ABORTED,
\* never still RUNNING.
C37_EndResolves ==
    [][\A n \in DOMAIN transaction_map :
          (/\ transaction_map[n].status = "RUNNING"
           /\ last_log'.op = "end" /\ last_log'.txn = n)
          => transaction_map'[n].status \in {"COMMITTED", "ABORTED"}]_vars

\* C37 witness: an end has just gone through the SI check, the stamping
\* and the cycle check in one command and left its transaction ABORTED,
\* while an end before it left another COMMITTED.
C37_Witness ==
    /\ last_log.op = "end" /\ last_log.what = "aborted: SSI cycle"
    /\ transaction_map[last_log.txn].status = "ABORTED"
    /\ transaction_map[last_log.txn].commit_ts = current_time
    /\ \E c \in committed_log :
          /\ c.name # last_log.txn
          /\ transaction_map[c.name].status = "COMMITTED"
====
